---- MODULE Spec2Model ----
(***************************************************************************)
(* A model of mopidy/commands.py: the lifecycle orchestrator               *)
(* RootCommand.run (specification Spec) and the recursive command-tree     *)
(* dispatcher Command.parse (specification ParseSpec).                     *)
(***************************************************************************)
EXTENDS Integers, Sequences, FiniteSets, TLC

\* ------------------------------------------------------------------ bounds
\* Largest number of registered backend classes / frontend classes.
MaxBackends == 2
MaxFrontends == 2

VARIABLES
  \* ---- RootCommand.run
  backend_classes,   \* args.registry['backend'], in registration order
  frontend_classes,  \* args.registry['frontend'], in registration order
  pc,                \* the statement of run that executes next
  idx,               \* position of the for loop of the current method (0: not entered)
  audio,             \* local variable audio of run ("None" until assigned)
  backends,          \* local variable backends: handles appended so far
  core,              \* local variable core of run
  live,              \* actors started and not stopped
  calls,             \* every start / stop request issued to a collaborator, in order
  steps,             \* every method of RootCommand that run has entered, in order
  log,               \* records handed to logger, in order
  pending,           \* exception in flight while the finally block runs
  raised,            \* exception that leaves run ("None": run returns)
  running,           \* loop.run() has been entered
  failed_stop,       \* the stop step that raised ("None": none did)
  \* ---- the command tree (Command.__init__, add_child, add_argument, set)
  _children,         \* node -> its (name, child) pairs in insertion order
  _arguments,        \* node -> its argument specifications in insertion order
  _overrides,        \* node -> its override table
  help,              \* node -> its help summary ("" when it has none)
  \* ---- Command.parse / Command._parse
  argv,              \* the argument list handed to parse
  ppc,               \* "call", "_parse", "returned" or "exited"
  node,              \* self of the _parse call that executes
  args,              \* parameter args of that call
  namespace,         \* the attributes of the argparse.Namespace handed down the
                     \* calls, as the last parse_args left them
  overrides,         \* the dict called overrides in parse and _parse
  aliased,           \* that dict is the very object root._overrides
  prog,              \* parameter prog, as the list of its words
  path,              \* the nodes whose _parse has been called, in order
  result,            \* what parse returned: that Namespace once the overrides
                     \* and the command are set on it
  exit_status,       \* the status handed to sys.exit (-1: no exit)
  stdout,            \* what was printed, in order
  first_call         \* how the caller's earlier call of parse on this tree
                     \* ended (NoCall: this call is the first)

orch_vars == <<backend_classes, frontend_classes, pc, idx, audio, backends, core,
               live, calls, steps, log, pending, raised, running, failed_stop>>

tree_vars == <<_children, _arguments, _overrides, help>>

parse_vars == <<argv, ppc, node, args, namespace, overrides, aliased, prog,
                path, result, exit_status, stdout, first_call>>

vars == <<orch_vars, tree_vars, parse_vars>>

\* ------------------------------------------------------------- helpers
\* Sequences without repetition over S: a registry lists each class once.
InjSeqs(S) ==
  UNION { { s \in [1..n -> S] : \A i, j \in 1..n : i # j => s[i] # s[j] }
          : n \in 0..Cardinality(S) }

Range(s) == { s[i] : i \in 1..Len(s) }

RECURSIVE SelectSeq2(_, _)
\* Subsequence of the elements of s that belong to the set S.
SelectSeq2(s, S) ==
  IF s = <<>> THEN <<>>
  ELSE IF Head(s) \in S THEN <<Head(s)>> \o SelectSeq2(Tail(s), S)
       ELSE SelectSeq2(Tail(s), S)

\* ------------------------------------------------- collaborators' outcomes
\* A start call returns a handle or raises; the three mopidy.exceptions
\* classes, an interruption, or any other exception.
ErrorTypes == {"BackendError", "FrontendError", "MixerError",
               "KeyboardInterrupt", "Exception"}
StartOutcomes == {"ok"} \cup ErrorTypes
\* loop.run() returns when the loop is quit, or is interrupted.
LoopOutcomes == {"ok", "KeyboardInterrupt"}
\* process.stop_actors_by_class / stop_remaining_actors return or raise.
StopOutcomes == {"ok", "Exception"}

Call(op, kind, cls, outcome, arg) ==
  [op |-> op, kind |-> kind, cls |-> cls, outcome |-> outcome, arg |-> arg]
Actor(kind, cls) == [kind |-> kind, cls |-> cls]
Record(level, msg, who) == [level |-> level, msg |-> msg, who |-> who]
NoArg == [audio |-> "None", backends |-> <<>>, core |-> "None"]

\* ------------------------------------------------------ RootCommand.run
\* Mutant of TryBody: the core is started before the backends.
TryBody_CoreBeforeBackends ==
  <<"start_audio", "start_core", "start_backends", "start_frontends", "loop_run">>

\* The statements of the try block, in order.
TryBody == <<"start_audio", "start_backends", "start_core", "start_frontends",
             "loop_run">>

\* The statements of the finally block, in order (loop.quit() precedes them).
FinallyBody == <<"stop_frontends", "stop_core", "stop_backends", "stop_audio",
                 "stop_remaining">>

Position(seq, s) == CHOOSE i \in 1..Len(seq) : seq[i] = s

\* The statement that follows s when s completes without raising.
After(s) ==
  IF s \in Range(TryBody)
  THEN IF Position(TryBody, s) < Len(TryBody)
       THEN TryBody[Position(TryBody, s) + 1]
       ELSE FinallyBody[1]
  ELSE IF Position(FinallyBody, s) < Len(FinallyBody)
       THEN FinallyBody[Position(FinallyBody, s) + 1]
       ELSE "done"

\* Mutant of InitializationErrors: MixerError is left out of the clause.
InitializationErrors_NoMixerError == {"BackendError", "FrontendError"}

\* The exception classes of run's first except clause.
InitializationErrors == {"BackendError", "FrontendError", "MixerError"}

\* Mutant of RunCatches: the except KeyboardInterrupt clause is missing.
RunCatches_NoInterruptClause(e) == e \in {"BackendError", "FrontendError", "MixerError"}

\* Whether one of run's except clauses handles exception e.
RunCatches(e) == e \in InitializationErrors \/ e = "KeyboardInterrupt"

\* What the matching except clause of run logs.
RunExceptLog(e) ==
  IF e \in InitializationErrors
  THEN <<Record("info", "Initialization error. Exiting...", 0)>>
  ELSE IF e = "KeyboardInterrupt"
       THEN <<Record("info", "Interrupted. Exiting...", 0)>>
       ELSE <<>>

\* Mutant of RaiseInTry: the statement that raised is executed again.
RaiseInTry_Retry(e, lg) ==
  /\ log' = lg
  /\ pending' = pending
  /\ pc' = pc
  /\ idx' = idx

\* Exception e leaves a statement of the try block, lg being the log so far:
\* a matching except clause handles it, then the finally block is entered.
RaiseInTry(e, lg) ==
  /\ log' = lg \o (IF RunCatches(e) THEN RunExceptLog(e) ELSE <<>>)
  /\ pending' = IF RunCatches(e) THEN "None" ELSE e
  /\ pc' = FinallyBody[1]
  /\ idx' = 0

\* A statement of the finally block raises: the block is abandoned and the
\* new exception replaces the one in flight.
RaiseInFinally(s, e) ==
  /\ pc' = "done"
  /\ idx' = 0
  /\ raised' = e
  /\ failed_stop' = s
  /\ UNCHANGED pending

\* Statement s of the finally block completes.
FinishStop(s) ==
  /\ pc' = After(s)
  /\ idx' = 0
  /\ raised' = IF After(s) = "done" THEN pending ELSE raised
  /\ UNCHANGED <<pending, failed_stop>>

start_audio ==
  /\ pc = "start_audio"
  /\ steps' = Append(steps, "start_audio")
  /\ \E r \in StartOutcomes :
       LET lg == Append(log, Record("info", "Starting Mopidy audio", 0)) IN
       /\ calls' = Append(calls, Call("start", "audio", 0, r, NoArg))
       /\ IF r = "ok"
          THEN /\ audio' = "Audio"
               /\ live' = live \cup {Actor("audio", 0)}
               /\ log' = lg
               /\ pc' = After("start_audio")
               /\ UNCHANGED <<pending, idx>>
          ELSE /\ RaiseInTry(r, lg)
               /\ UNCHANGED <<audio, live>>
  /\ UNCHANGED <<backend_classes, frontend_classes, backends, core, raised,
                 running, failed_stop>>
  /\ UNCHANGED <<tree_vars, parse_vars>>

\* Entry of start_backends: the info record and the empty backends list.
start_backends ==
  /\ pc = "start_backends" /\ idx = 0
  /\ steps' = Append(steps, "start_backends")
  /\ log' = Append(log, Record("info", "Starting Mopidy backends", 0))
  /\ backends' = <<>>
  /\ IF Len(backend_classes) = 0
     THEN pc' = After("start_backends") /\ idx' = 0
     ELSE pc' = pc /\ idx' = 1
  /\ UNCHANGED <<backend_classes, frontend_classes, audio, core, live, calls,
                 pending, raised, running, failed_stop>>
  /\ UNCHANGED <<tree_vars, parse_vars>>

\* One iteration of the for loop of start_backends.
start_backend ==
  /\ pc = "start_backends" /\ idx >= 1
  /\ LET cls == backend_classes[idx] IN
     \E r \in StartOutcomes :
       /\ calls' = Append(calls, Call("start", "backend", cls, r,
                                      [NoArg EXCEPT !.audio = audio]))
       /\ IF r = "ok"
          THEN /\ backends' = Append(backends, cls)
               /\ live' = live \cup {Actor("backend", cls)}
               /\ IF idx = Len(backend_classes)
                  THEN pc' = After("start_backends") /\ idx' = 0
                  ELSE pc' = pc /\ idx' = idx + 1
               /\ UNCHANGED <<log, pending>>
          ELSE /\ RaiseInTry(r, IF r = "BackendError"
                                THEN Append(log, Record("error",
                                       "Backend initialization error", cls))
                                ELSE log)
               /\ UNCHANGED <<backends, live>>
  /\ UNCHANGED <<backend_classes, frontend_classes, audio, core, steps, raised,
                 running, failed_stop>>
  /\ UNCHANGED <<tree_vars, parse_vars>>

\* Mutant of start_core: the core is started without the backends.
start_core_WithoutBackends ==
  /\ pc = "start_core"
  /\ steps' = Append(steps, "start_core")
  /\ \E r \in StartOutcomes :
       LET lg == Append(log, Record("info", "Starting Mopidy core", 0)) IN
       /\ calls' = Append(calls, Call("start", "core", 0, r,
                      [NoArg EXCEPT !.audio = audio]))
       /\ IF r = "ok"
          THEN /\ core' = "Core"
               /\ live' = live \cup {Actor("core", 0)}
               /\ log' = lg
               /\ pc' = After("start_core")
               /\ UNCHANGED <<pending, idx>>
          ELSE /\ RaiseInTry(r, lg)
               /\ UNCHANGED <<core, live>>
  /\ UNCHANGED <<backend_classes, frontend_classes, audio, backends, raised,
                 running, failed_stop>>
  /\ UNCHANGED <<tree_vars, parse_vars>>

\* core = self.start_core(audio, backends)
start_core ==
  /\ pc = "start_core"
  /\ steps' = Append(steps, "start_core")
  /\ \E r \in StartOutcomes :
       LET lg == Append(log, Record("info", "Starting Mopidy core", 0)) IN
       /\ calls' = Append(calls, Call("start", "core", 0, r,
                      [NoArg EXCEPT !.audio = audio, !.backends = backends]))
       /\ IF r = "ok"
          THEN /\ core' = "Core"
               /\ live' = live \cup {Actor("core", 0)}
               /\ log' = lg
               /\ pc' = After("start_core")
               /\ UNCHANGED <<pending, idx>>
          ELSE /\ RaiseInTry(r, lg)
               /\ UNCHANGED <<core, live>>
  /\ UNCHANGED <<backend_classes, frontend_classes, audio, backends, raised,
                 running, failed_stop>>
  /\ UNCHANGED <<tree_vars, parse_vars>>

\* Entry of start_frontends: the info record.
start_frontends ==
  /\ pc = "start_frontends" /\ idx = 0
  /\ steps' = Append(steps, "start_frontends")
  /\ log' = Append(log, Record("info", "Starting Mopidy frontends", 0))
  /\ IF Len(frontend_classes) = 0
     THEN pc' = After("start_frontends") /\ idx' = 0
     ELSE pc' = pc /\ idx' = 1
  /\ UNCHANGED <<backend_classes, frontend_classes, audio, backends, core, live,
                 calls, pending, raised, running, failed_stop>>
  /\ UNCHANGED <<tree_vars, parse_vars>>

\* One iteration of the for loop of start_frontends.
start_frontend ==
  /\ pc = "start_frontends" /\ idx >= 1
  /\ LET cls == frontend_classes[idx] IN
     \E r \in StartOutcomes :
       /\ calls' = Append(calls, Call("start", "frontend", cls, r,
                                      [NoArg EXCEPT !.core = core]))
       /\ IF r = "ok"
          THEN /\ live' = live \cup {Actor("frontend", cls)}
               /\ IF idx = Len(frontend_classes)
                  THEN pc' = After("start_frontends") /\ idx' = 0
                  ELSE pc' = pc /\ idx' = idx + 1
               /\ UNCHANGED <<log, pending>>
          ELSE /\ RaiseInTry(r, IF r = "FrontendError"
                                THEN Append(log, Record("error",
                                       "Frontend initialization error", cls))
                                ELSE log)
               /\ UNCHANGED live
  /\ UNCHANGED <<backend_classes, frontend_classes, audio, backends, core, steps,
                 raised, running, failed_stop>>
  /\ UNCHANGED <<tree_vars, parse_vars>>

\* loop.run(): the event loop is entered and blocks.
loop_run ==
  /\ pc = "loop_run" /\ ~running
  /\ running' = TRUE
  /\ steps' = Append(steps, "loop_run")
  /\ UNCHANGED <<backend_classes, frontend_classes, pc, idx, audio, backends,
                 core, live, calls, log, pending, raised, failed_stop>>
  /\ UNCHANGED <<tree_vars, parse_vars>>

\* loop.run() ends: the loop was quit, or KeyboardInterrupt arrived.
loop_exit ==
  /\ pc = "loop_run" /\ running
  /\ \E r \in LoopOutcomes :
       /\ calls' = Append(calls, Call("run", "loop", 0, r, NoArg))
       /\ IF r = "ok"
          THEN /\ pc' = After("loop_run")
               /\ UNCHANGED <<log, pending, idx>>
          ELSE RaiseInTry(r, log)
  /\ UNCHANGED <<backend_classes, frontend_classes, audio, backends, core, live,
                 steps, raised, running, failed_stop>>
  /\ UNCHANGED <<tree_vars, parse_vars>>

\* Entry of stop_frontends (after loop.quit()): the info record.
stop_frontends ==
  /\ pc = "stop_frontends" /\ idx = 0
  /\ steps' = Append(steps, "stop_frontends")
  /\ log' = Append(log, Record("info", "Stopping Mopidy frontends", 0))
  /\ IF Len(frontend_classes) = 0
     THEN FinishStop("stop_frontends")
     ELSE pc' = pc /\ idx' = 1 /\ UNCHANGED <<raised, pending, failed_stop>>
  /\ UNCHANGED <<backend_classes, frontend_classes, audio, backends, core, live,
                 calls, running>>
  /\ UNCHANGED <<tree_vars, parse_vars>>

\* One iteration of the for loop of stop_frontends.
stop_frontend ==
  /\ pc = "stop_frontends" /\ idx >= 1
  /\ LET cls == frontend_classes[idx] IN
     \E r \in StopOutcomes :
       /\ calls' = Append(calls, Call("stop", "frontend", cls, r, NoArg))
       /\ IF r = "ok"
          THEN /\ live' = live \ {Actor("frontend", cls)}
               /\ IF idx = Len(frontend_classes)
                  THEN FinishStop("stop_frontends")
                  ELSE /\ pc' = pc /\ idx' = idx + 1
                       /\ UNCHANGED <<raised, pending, failed_stop>>
          ELSE /\ RaiseInFinally("stop_frontends", r)
               /\ UNCHANGED live
  /\ UNCHANGED <<backend_classes, frontend_classes, audio, backends, core, steps,
                 log, running>>
  /\ UNCHANGED <<tree_vars, parse_vars>>

stop_core ==
  /\ pc = "stop_core"
  /\ steps' = Append(steps, "stop_core")
  /\ log' = Append(log, Record("info", "Stopping Mopidy core", 0))
  /\ \E r \in StopOutcomes :
       /\ calls' = Append(calls, Call("stop", "core", 0, r, NoArg))
       /\ IF r = "ok"
          THEN /\ live' = live \ {Actor("core", 0)}
               /\ FinishStop("stop_core")
          ELSE /\ RaiseInFinally("stop_core", r)
               /\ UNCHANGED live
  /\ UNCHANGED <<backend_classes, frontend_classes, audio, backends, core,
                 running>>
  /\ UNCHANGED <<tree_vars, parse_vars>>

\* Entry of stop_backends: the info record.
stop_backends ==
  /\ pc = "stop_backends" /\ idx = 0
  /\ steps' = Append(steps, "stop_backends")
  /\ log' = Append(log, Record("info", "Stopping Mopidy backends", 0))
  /\ IF Len(backend_classes) = 0
     THEN FinishStop("stop_backends")
     ELSE pc' = pc /\ idx' = 1 /\ UNCHANGED <<raised, pending, failed_stop>>
  /\ UNCHANGED <<backend_classes, frontend_classes, audio, backends, core, live,
                 calls, running>>
  /\ UNCHANGED <<tree_vars, parse_vars>>

\* One iteration of the for loop of stop_backends.
stop_backend ==
  /\ pc = "stop_backends" /\ idx >= 1
  /\ LET cls == backend_classes[idx] IN
     \E r \in StopOutcomes :
       /\ calls' = Append(calls, Call("stop", "backend", cls, r, NoArg))
       /\ IF r = "ok"
          THEN /\ live' = live \ {Actor("backend", cls)}
               /\ IF idx = Len(backend_classes)
                  THEN FinishStop("stop_backends")
                  ELSE /\ pc' = pc /\ idx' = idx + 1
                       /\ UNCHANGED <<raised, pending, failed_stop>>
          ELSE /\ RaiseInFinally("stop_backends", r)
               /\ UNCHANGED live
  /\ UNCHANGED <<backend_classes, frontend_classes, audio, backends, core, steps,
                 log, running>>
  /\ UNCHANGED <<tree_vars, parse_vars>>

stop_audio ==
  /\ pc = "stop_audio"
  /\ steps' = Append(steps, "stop_audio")
  /\ log' = Append(log, Record("info", "Stopping Mopidy audio", 0))
  /\ \E r \in StopOutcomes :
       /\ calls' = Append(calls, Call("stop", "audio", 0, r, NoArg))
       /\ IF r = "ok"
          THEN /\ live' = live \ {Actor("audio", 0)}
               /\ FinishStop("stop_audio")
          ELSE /\ RaiseInFinally("stop_audio", r)
               /\ UNCHANGED live
  /\ UNCHANGED <<backend_classes, frontend_classes, audio, backends, core,
                 running>>
  /\ UNCHANGED <<tree_vars, parse_vars>>

\* process.stop_remaining_actors(): the sweep of whatever is still live.
stop_remaining ==
  /\ pc = "stop_remaining"
  /\ steps' = Append(steps, "stop_remaining")
  /\ \E r \in StopOutcomes :
       /\ calls' = Append(calls, Call("stop", "remaining", 0, r, NoArg))
       /\ IF r = "ok"
          THEN /\ live' = {}
               /\ FinishStop("stop_remaining")
          ELSE /\ RaiseInFinally("stop_remaining", r)
               /\ UNCHANGED live
  /\ UNCHANGED <<backend_classes, frontend_classes, audio, backends, core, log,
                 running>>
  /\ UNCHANGED <<tree_vars, parse_vars>>

\* =================================================================
\* The command tree and Command.parse
\* =================================================================
\* Longest argument list handed to parse.
MaxArgs == 3

\* ---- values held by a Namespace attribute or an override
Value(tag, num, items) == [tag |-> tag, num |-> num, items |-> items]
NoneValue == Value("None", 0, <<>>)
IntValue(n) == Value("int", n, <<>>)
BoolValue(b) == Value("bool", IF b THEN 1 ELSE 0, <<>>)
ListValue(items) == Value("list", 0, items)
\* argparse.SUPPRESS, as a dest and as a default.
SUPPRESS == "==SUPPRESS=="
SuppressValue == Value(SUPPRESS, 0, <<>>)

\* ---- the tokens of an argument list, and how each is spelled
OptionTokens == {"-h", "--version", "-q", "-v", "-o", "-x"}
WordTokens == {"config", "deps", "sub", "bogus", "a/b=c"}
Tokens == OptionTokens \cup WordTokens

Spelling(t) ==
  CASE t = "-h" -> <<"-", "h">>
    [] t = "--version" -> <<"-", "-", "v", "e", "r", "s", "i", "o", "n">>
    [] t = "-q" -> <<"-", "q">>
    [] t = "-v" -> <<"-", "v">>
    [] t = "-o" -> <<"-", "o">>
    [] t = "-x" -> <<"-", "x">>
    [] t = "config" -> <<"c", "o", "n", "f", "i", "g">>
    [] t = "deps" -> <<"d", "e", "p", "s">>
    [] t = "sub" -> <<"s", "u", "b">>
    [] t = "bogus" -> <<"b", "o", "g", "u", "s">>
    [] t = "a/b=c" -> <<"a", "/", "b", "=", "c">>
    [] t = "mopidy.conf" -> <<"m", "o", "p", "i", "d", "y", ".", "c", "o", "n", "f">>

\* argparse takes a token for an option string when it starts with a prefix
\* character and is longer than that character.
IsOptionString(t) == Len(Spelling(t)) > 1 /\ Spelling(t)[1] = "-"

\* Position of the first sep in chars, 0 when there is none.
Find(chars, sep) ==
  IF \E i \in 1..Len(chars) : chars[i] = sep
  THEN CHOOSE i \in 1..Len(chars) :
         chars[i] = sep /\ \A j \in 1..(i - 1) : chars[j] # sep
  ELSE 0

RECURSIVE SplitAll(_, _)
\* value.split(sep)
SplitAll(chars, sep) ==
  IF Find(chars, sep) = 0 THEN <<chars>>
  ELSE <<SubSeq(chars, 1, Find(chars, sep) - 1)>>
       \o SplitAll(SubSeq(chars, Find(chars, sep) + 1, Len(chars)), sep)

\* value.split(b':') on the spelling of the token.
config_files_type(t) == [ok |-> TRUE, value |-> ListValue(SplitAll(Spelling(t), ":"))]

\* section, remainder = value.split('/', 1); key, value = remainder.split('=', 1):
\* the triple, or ArgumentTypeError when either separator is missing.
config_override_type(t) ==
  LET c == Spelling(t)
      i == Find(c, "/")
      r == SubSeq(c, i + 1, Len(c))
      j == Find(r, "=")
  IN IF i = 0 \/ j = 0
     THEN [ok |-> FALSE, value |-> NoneValue]
     ELSE [ok |-> TRUE,
           value |-> ListValue(<< <<SubSeq(c, 1, i - 1), SubSeq(r, 1, j - 1),
                               SubSeq(r, j + 1, Len(r))>> >>)]

\* The type= converter of an argument applied to a token.
Convert(type, t) ==
  CASE type = "config_files_type" -> config_files_type(t)
    [] type = "config_override_type" -> config_override_type(t)
    [] OTHER -> [ok |-> TRUE, value |-> ListValue(<<Spelling(t)>>)]

\* ---- argument specifications (the args, kwargs pairs of add_argument)
Argument(names, action, dest, const, default, type) ==
  [names |-> names, action |-> action, dest |-> dest, const |-> const,
   default |-> default, type |-> type]

HelpArgument == Argument(<<"-h", "--help">>, "help", SUPPRESS, NoneValue,
                         SuppressValue, "None")
QuietArgument == Argument(<<"-q", "--quiet">>, "store_const", "verbosity_level",
                          IntValue(-1), NoneValue, "None")
VerboseArgument == Argument(<<"-v", "--verbose">>, "count", "verbosity_level",
                            NoneValue, IntValue(0), "None")

\* The arguments RootCommand.__init__ adds, in order.
RootArguments ==
  << HelpArgument,
     Argument(<<"--version">>, "version", SUPPRESS, NoneValue, SuppressValue,
              "None"),
     QuietArgument,
     VerboseArgument,
     Argument(<<"--save-debug-log">>, "store_true", "save_debug_log",
              BoolValue(TRUE), BoolValue(FALSE), "None"),
     Argument(<<"--config">>, "store", "config_files", NoneValue,
              config_files_type("mopidy.conf").value, "config_files_type"),
     Argument(<<"-o", "--option">>, "append", "config_overrides", NoneValue,
              NoneValue, "config_override_type") >>

\* The override tables: RootCommand sets base_verbosity_level=0, ConfigCommand
\* and DepsCommand set base_verbosity_level=-1.
NoOverrides == [k \in {} |-> NoneValue]
Override(k, v) == [x \in {k} |-> v]

Child(name, n) == [name |-> name, node |-> n]
Tree(c, a, o, h) == [children |-> c, arguments |-> a, overrides |-> o, help |-> h]

\* RootCommand with its ConfigCommand and DepsCommand children.
MopidyTree ==
  Tree([n \in 0..2 |-> IF n = 0 THEN <<Child("config", 1), Child("deps", 2)>>
                       ELSE <<>>],
       [n \in 0..2 |-> IF n = 0 THEN RootArguments ELSE <<>>],
       [n \in 0..2 |-> IF n = 0 THEN Override("base_verbosity_level", IntValue(0))
                       ELSE Override("base_verbosity_level", IntValue(-1))],
       [n \in 0..2 |-> CASE n = 0 -> ""
                         [] n = 1 -> "Show currently active configuration."
                         [] n = 2 -> "Show dependencies and debug information."])

\* A tree of plain Command nodes three levels deep: flags and help actions
\* below the root, overrides that collide with each other and with flag
\* destinations, and a node (3) with neither help nor arguments.
DeepTree ==
  Tree([n \in 0..4 |-> CASE n = 0 -> <<Child("config", 1), Child("deps", 3)>>
                         [] n = 1 -> <<Child("sub", 2)>>
                         [] n = 3 -> <<Child("sub", 4)>>
                         [] OTHER -> <<>>],
       [n \in 0..4 |-> CASE n = 0 -> <<HelpArgument, VerboseArgument>>
                         [] n = 1 -> <<HelpArgument, QuietArgument>>
                         [] OTHER -> <<>>],
       [n \in 0..4 |->
          CASE n = 0 -> Override("base_verbosity_level", IntValue(0))
            [] n = 1 -> [k \in {"base_verbosity_level", "verbosity_level"} |->
                           IF k = "verbosity_level" THEN IntValue(0) ELSE IntValue(-1)]
            [] n = 2 -> Override("base_verbosity_level", IntValue(1))
            [] n = 3 -> Override("save_debug_log", BoolValue(TRUE))
            [] n = 4 -> Override("verbosity_level", IntValue(3))],
       [n \in 0..4 |-> CASE n = 1 -> "Show config"
                         [] n = 4 -> "Show sub"
                         [] OTHER -> ""])

\* A root without arguments or overrides, flags on the child only.
BareRootTree ==
  Tree([n \in 0..2 |-> CASE n = 0 -> <<Child("config", 1)>>
                         [] n = 1 -> <<Child("deps", 2)>>
                         [] OTHER -> <<>>],
       [n \in 0..2 |-> CASE n = 1 -> <<VerboseArgument, QuietArgument, HelpArgument>>
                         [] n = 2 -> <<VerboseArgument>>
                         [] OTHER -> <<>>],
       [n \in 0..2 |-> CASE n = 2 -> Override("verbosity_level", IntValue(-1))
                         [] OTHER -> NoOverrides],
       [n \in 0..2 |-> ""])

Trees == {MopidyTree, DeepTree, BareRootTree}

\* os.path.basename(sys.argv[0])
ProgramName == "mopidy"
Root == 0

\* ---- dict and Namespace operations
\* d.update(other): the keys of other overwrite those of d.
DictUpdate(d, other) ==
  [k \in DOMAIN d \cup DOMAIN other |-> IF k \in DOMAIN other THEN other[k] ELSE d[k]]

\* setattr(namespace, dest, value)
SetAttr(ns, dest, value) == DictUpdate(ns, Override(dest, value))

ChildNames(n) == { _children[n][i].name : i \in 1..Len(_children[n]) }

\* self._children[name]: the last pair registered under the name.
ChildNode(n, name) ==
  _children[n][CHOOSE i \in 1..Len(_children[n]) :
                 /\ _children[n][i].name = name
                 /\ \A j \in (i + 1)..Len(_children[n]) :
                      _children[n][j].name # name].node

\* ---- parser.parse_args(args, namespace) of the parser _build returns
RECURSIVE AddDefaults(_, _)
\* argparse adds the default of every action whose dest the namespace has not
\* yet, in the order of the actions.
AddDefaults(specs, ns) ==
  IF specs = <<>> THEN ns
  ELSE LET a == Head(specs) IN
       AddDefaults(Tail(specs),
                   IF a.dest # SUPPRESS /\ a.dest \notin DOMAIN ns
                      /\ a.default # SuppressValue
                   THEN SetAttr(ns, a.dest, a.default)
                   ELSE ns)

Outcome(status, ns, rest, message) ==
  [status |-> status, ns |-> ns, rest |-> rest, message |-> message]
Message(text, tokens) == [text |-> text, tokens |-> tokens]
NoMessage == Message("", <<>>)

\* The first action of specs that has option string t (0: none has).
ActionFor(specs, t) ==
  IF \E i \in 1..Len(specs) : t \in Range(specs[i].names)
  THEN CHOOSE i \in 1..Len(specs) :
         /\ t \in Range(specs[i].names)
         /\ \A j \in 1..(i - 1) : t \notin Range(specs[j].names)
  ELSE 0

\* _CountAction: _ensure_value(namespace, dest, 0) + 1
Count(ns, dest) ==
  IF dest \in DOMAIN ns /\ ns[dest].tag = "int" THEN IntValue(ns[dest].num + 1)
  ELSE IntValue(1)

\* _AppendAction: copy of _ensure_value(namespace, dest, []) with value added
AppendTo(ns, dest, value) ==
  IF dest \in DOMAIN ns /\ ns[dest].tag = "list"
  THEN ListValue(ns[dest].items \o value.items)
  ELSE value

RECURSIVE Consume(_, _, _, _)
\* The loop of _parse_known_args: option strings are consumed one by one,
\* those no action has are collected in extras; at the first token that is no
\* option string the REMAINDER positional _args takes everything left.
\* parse_args then fails when extras is not empty.
Consume(specs, rest, ns, extras) ==
  IF rest = <<>> \/ ~IsOptionString(Head(rest))
  THEN IF extras # <<>>
       THEN Outcome("error", ns, rest, Message("unrecognized arguments", extras))
       ELSE Outcome("ok", ns, rest, NoMessage)
  ELSE LET t == Head(rest)
           i == ActionFor(specs, t)
       IN
       IF i = 0 THEN Consume(specs, Tail(rest), ns, Append(extras, t))
       ELSE LET a == specs[i] IN
         CASE a.action = "help" -> Outcome("help", ns, Tail(rest), NoMessage)
           [] a.action = "version" -> Outcome("version", ns, Tail(rest), NoMessage)
           [] a.action = "store_const" ->
                Consume(specs, Tail(rest), SetAttr(ns, a.dest, a.const), extras)
           [] a.action = "store_true" ->
                Consume(specs, Tail(rest), SetAttr(ns, a.dest, BoolValue(TRUE)), extras)
           [] a.action = "count" ->
                Consume(specs, Tail(rest), SetAttr(ns, a.dest, Count(ns, a.dest)),
                        extras)
           [] a.action \in {"store", "append"} ->
                IF Len(rest) < 2 \/ IsOptionString(rest[2])
                THEN Outcome("error", ns, Tail(rest),
                             Message("expected one argument", <<t>>))
                ELSE LET v == Convert(a.type, rest[2]) IN
                     IF ~v.ok
                     THEN Outcome("error", ns, Tail(rest),
                                  Message("must have the format section/key=value",
                                          <<rest[2]>>))
                     ELSE Consume(specs, Tail(Tail(rest)),
                                  SetAttr(ns, a.dest,
                                          IF a.action = "append"
                                          THEN AppendTo(ns, a.dest, v.value)
                                          ELSE v.value),
                                  extras)

ParseArgs(specs, arglist, ns) == Consume(specs, arglist, AddDefaults(specs, ns), <<>>)

\* ---- usage and help texts
Text(kind, n, words, summary, options, commands, tokens) ==
  [kind |-> kind, node |-> n, prog |-> words, summary |-> summary,
   options |-> options, commands |-> commands, tokens |-> tokens]
NoText == Text("None", -1, <<>>, "", <<>>, <<>>, <<>>)

\* The option strings of a node's own arguments, as the usage line shows them.
Options(n) == [i \in 1..Len(_arguments[n]) |-> _arguments[n][i].names]

\* Mutant of Usage: the usage line is rendered under the bare program name.
Usage_BareProgramName(n, words) ==
  [kind |-> "usage", node |-> n, prog |-> <<words[1]>>, summary |-> "",
   options |-> [i \in 1..Len(_arguments[n]) |-> _arguments[n][i].names],
   commands |-> <<>>, tokens |-> <<>>]

\* Command._usage(actions, prog): the usage line of the node's own arguments.
Usage(n, words) == Text("usage", n, words, "", Options(n), <<>>, <<>>)

RECURSIVE Subhelp(_, _)
RECURSIVE SubhelpOfChildren(_, _, _)
\* Mutant of Subhelp: a node without a block of its own ends the traversal,
\* its descendants are not visited.
Subhelp_SilentNodeEndsTraversal(n, words) ==
  IF help[n] # "" \/ _arguments[n] # <<>>
  THEN <<Text("block", n, words, help[n], Options(n), <<>>, <<>>)>>
       \o SubhelpOfChildren(n, words, 1)
  ELSE <<>>

\* Command._subhelp(name, result): the node's block when it has a help
\* summary or arguments, then the blocks of its children, in insertion order.
Subhelp(n, words) ==
  (IF help[n] # "" \/ _arguments[n] # <<>>
   THEN <<Text("block", n, words, help[n], Options(n), <<>>, <<>>)>>
   ELSE <<>>)
  \o SubhelpOfChildren(n, words, 1)
SubhelpOfChildren(n, words, i) ==
  IF i > Len(_children[n]) THEN <<>>
  ELSE Subhelp(_children[n][i].node, Append(words, _children[n][i].name))
       \o SubhelpOfChildren(n, words, i + 1)

\* Command.format_help(prog): usage, summary, OPTIONS, and under COMMANDS the
\* blocks of all descendants, each named by its path below this node.
format_help(n, words) ==
  Text("help", n, words, help[n], Options(n), SubhelpOfChildren(n, <<>>, 1), <<>>)

\* Mutant of Printed: the message is printed before the usage line.
Printed_MessageFirst(usage, message) ==
  (IF message # NoText THEN <<message>> ELSE <<>>)
  \o (IF usage # NoText THEN <<usage>> ELSE <<>>)

\* Command.exit prints usage and message, those that are not empty, and exits.
Printed(usage, message) ==
  (IF usage # NoText THEN <<usage>> ELSE <<>>)
  \o (IF message # NoText THEN <<message>> ELSE <<>>)

exit(status_code, message, usage) ==
  /\ stdout' = stdout \o Printed(usage, message)
  /\ exit_status' = status_code
  /\ ppc' = "exited"

NoResult == [command |-> -1, attrs |-> NoOverrides]

\* How a call of parse ended, as its caller sees it: the result returned or
\* the exit status and the text printed, and the nodes it went through.
CallOutcome ==
  [ppc |-> ppc, result |-> result, exit_status |-> exit_status,
   stdout |-> stdout, path |-> path]
NoCall == [ppc |-> "None", result |-> NoResult, exit_status |-> -1,
           stdout |-> <<>>, path |-> <<>>]

\* Mutant of OverridesArgument: parse hands root's own dict to _parse.
OverridesArgument_NoCopy(n) == [dict |-> _overrides[n], aliased |-> TRUE]

\* ---- Command.parse: the entry, on the root of the tree
\* The dict handed to _parse: self._overrides.copy(), a new object.
OverridesArgument(n) == [dict |-> _overrides[n], aliased |-> FALSE]

parse ==
  /\ ppc = "call"
  /\ ppc' = "_parse"
  /\ node' = Root
  /\ args' = argv
  /\ namespace' = NoOverrides
  /\ overrides' = OverridesArgument(Root).dict
  /\ aliased' = OverridesArgument(Root).aliased
  /\ prog' = <<ProgramName>>
  /\ path' = <<>>
  /\ UNCHANGED <<argv, result, exit_status, stdout, first_call, tree_vars,
                 orch_vars>>

\* The caller, holding the outcome of its first call (a result, or the
\* SystemExit it caught), calls parse a second time with the same argument
\* list on the same tree.
call_again ==
  /\ ppc \in {"returned", "exited"}
  /\ first_call = NoCall
  /\ first_call' = CallOutcome
  /\ ppc' = "call"
  /\ result' = NoResult
  /\ exit_status' = -1
  /\ stdout' = <<>>
  /\ UNCHANGED <<argv, node, args, namespace, overrides, aliased, prog, path,
                 tree_vars, orch_vars>>

\* ---- Command._parse: one call, by the way it ends
\* Mutant of Updated: keys the dict already holds are kept, so that an
\* ancestor's override wins over a descendant's.
Updated_AncestorWins ==
  [k \in DOMAIN overrides \cup DOMAIN _overrides[node] |->
     IF k \in DOMAIN overrides THEN overrides[k] ELSE _overrides[node][k]]

\* overrides.update(self._overrides), on the dict the caller handed in.
Updated == DictUpdate(overrides, _overrides[node])

\* What update does to the tree: nothing, unless the dict is root's own.
UpdateEffect ==
  /\ overrides' = Updated
  /\ _overrides' = IF aliased THEN [_overrides EXCEPT ![Root] = Updated]
                   ELSE _overrides
  /\ path' = Append(path, node)
  /\ UNCHANGED <<_children, _arguments, help, argv, aliased, first_call>>

\* Mutant of Parsed: every level parses into a new, empty Namespace.
Parsed_FreshNamespace == ParseArgs(_arguments[node], args, NoOverrides)

\* result = parser.parse_args(args, namespace)
Parsed == ParseArgs(_arguments[node], args, namespace)

\* The condition of line 212: the popped token names no child of this node.
Unrecognized(n, child) == child \notin ChildNames(n)

\* parse_args raised _ParserError: exit(1, e.message, usage of this node).
parse_error ==
  /\ ppc = "_parse"
  /\ Parsed.status = "error"
  /\ UpdateEffect
  /\ exit(1, Text("error", node, prog, Parsed.message.text, <<>>, <<>>,
                  Parsed.message.tokens),
          Usage(node, prog))
  /\ namespace' = Parsed.ns
  /\ UNCHANGED <<node, args, prog, result, orch_vars>>

\* A help action raised _HelpError: no _parse call handles it, it reaches the
\* except clause of parse, whose self is the root and whose prog is its own.
parse_help ==
  /\ ppc = "_parse"
  /\ Parsed.status = "help"
  /\ UpdateEffect
  /\ exit(0, format_help(Root, <<ProgramName>>), NoText)
  /\ namespace' = Parsed.ns
  /\ UNCHANGED <<node, args, prog, result, orch_vars>>

\* The version action printed the version and left through parser.exit().
parse_version ==
  /\ ppc = "_parse"
  /\ Parsed.status = "version"
  /\ UpdateEffect
  /\ stdout' = Append(stdout, Text("version", node, prog, "", <<>>, <<>>, <<>>))
  /\ exit_status' = 0
  /\ ppc' = "exited"
  /\ namespace' = Parsed.ns
  /\ UNCHANGED <<node, args, prog, result, orch_vars>>

\* result._args is empty: the overrides are set on the result, which gets
\* this node as its command and is returned.
parse_return ==
  /\ ppc = "_parse"
  /\ Parsed.status = "ok" /\ Parsed.rest = <<>>
  /\ UpdateEffect
  /\ namespace' = Parsed.ns
  /\ result' = [command |-> node, attrs |-> DictUpdate(Parsed.ns, Updated)]
  /\ ppc' = "returned"
  /\ UNCHANGED <<node, args, prog, exit_status, stdout, orch_vars>>

\* The first token of result._args names no child: exit(1, ...).
parse_unrecognized ==
  /\ ppc = "_parse"
  /\ Parsed.status = "ok" /\ Parsed.rest # <<>>
  /\ Unrecognized(node, Head(Parsed.rest))
  /\ UpdateEffect
  /\ exit(1, Text("unrecognized command", node, prog, "", <<>>, <<>>,
                  <<Head(Parsed.rest)>>),
          Usage(node, prog))
  /\ namespace' = Parsed.ns
  /\ args' = Tail(Parsed.rest)
  /\ UNCHANGED <<node, prog, result, orch_vars>>

\* Mutant of parse_child: the child is handed its own name again, the token
\* is not consumed.
parse_child_KeepsToken ==
  /\ ppc = "_parse"
  /\ Parsed.status = "ok" /\ Parsed.rest # <<>>
  /\ ~Unrecognized(node, Head(Parsed.rest))
  /\ UpdateEffect
  /\ namespace' = Parsed.ns
  /\ node' = ChildNode(node, Head(Parsed.rest))
  /\ args' = Parsed.rest
  /\ prog' = Append(prog, Head(Parsed.rest))
  /\ UNCHANGED <<ppc, result, exit_status, stdout, orch_vars>>

\* The first token names a child: its _parse is called with the rest.
parse_child ==
  /\ ppc = "_parse"
  /\ Parsed.status = "ok" /\ Parsed.rest # <<>>
  /\ ~Unrecognized(node, Head(Parsed.rest))
  /\ UpdateEffect
  /\ namespace' = Parsed.ns
  /\ node' = ChildNode(node, Head(Parsed.rest))
  /\ args' = Tail(Parsed.rest)
  /\ prog' = Append(prog, Head(Parsed.rest))
  /\ UNCHANGED <<ppc, result, exit_status, stdout, orch_vars>>

\* The dispatcher's variables while run executes: parse has returned the
\* root command of the Mopidy tree.
ParseIdle ==
  /\ _children = MopidyTree.children
  /\ _arguments = MopidyTree.arguments
  /\ _overrides = MopidyTree.overrides
  /\ help = MopidyTree.help
  /\ argv = <<>>
  /\ ppc = "idle"
  /\ node = Root
  /\ args = <<>>
  /\ namespace = NoOverrides
  /\ overrides = NoOverrides
  /\ aliased = FALSE
  /\ prog = <<ProgramName>>
  /\ path = <<>>
  /\ result = NoResult
  /\ exit_status = -1
  /\ stdout = <<>>
  /\ first_call = NoCall

\* The orchestrator's variables while parse executes: run is not called.
RunIdle ==
  /\ backend_classes = <<>>
  /\ frontend_classes = <<>>
  /\ pc = "idle"
  /\ idx = 0
  /\ audio = "None"
  /\ backends = <<>>
  /\ core = "None"
  /\ live = {}
  /\ calls = <<>>
  /\ steps = <<>>
  /\ log = <<>>
  /\ pending = "None"
  /\ raised = "None"
  /\ running = FALSE
  /\ failed_stop = "None"

\* The state when run is called: a registry, and nothing started.
Init ==
  /\ backend_classes \in InjSeqs(1..MaxBackends)
  /\ frontend_classes \in InjSeqs(1..MaxFrontends)
  /\ pc = TryBody[1]
  /\ idx = 0
  /\ audio = "None"
  /\ backends = <<>>
  /\ core = "None"
  /\ live = {}
  /\ calls = <<>>
  /\ steps = <<>>
  /\ log = <<>>
  /\ pending = "None"
  /\ raised = "None"
  /\ running = FALSE
  /\ failed_stop = "None"
  /\ ParseIdle

Next ==
  \/ start_audio
  \/ start_backends
  \/ start_backend
  \/ start_core
  \/ start_frontends
  \/ start_frontend
  \/ loop_run
  \/ loop_exit
  \/ stop_frontends
  \/ stop_frontend
  \/ stop_core
  \/ stop_backends
  \/ stop_backend
  \/ stop_audio
  \/ stop_remaining

Spec == Init /\ [][Next]_vars

RECURSIVE SeqsUpTo(_, _)
\* The sequences over S of length at most n.
SeqsUpTo(S, n) ==
  IF n = 0 THEN {<<>>}
  ELSE SeqsUpTo(S, n - 1)
       \cup { Append(q, x) : q \in { r \in SeqsUpTo(S, n - 1) : Len(r) = n - 1 },
                              x \in S }

\* A tree as its constructors left it, and an argument list for parse.
ParseInit ==
  /\ \E t \in Trees :
       /\ _children = t.children
       /\ _arguments = t.arguments
       /\ _overrides = t.overrides
       /\ help = t.help
  /\ argv \in SeqsUpTo(Tokens, MaxArgs)
  /\ ppc = "call"
  /\ node = Root
  /\ args = <<>>
  /\ namespace = NoOverrides
  /\ overrides = NoOverrides
  /\ aliased = FALSE
  /\ prog = <<ProgramName>>
  /\ path = <<>>
  /\ result = NoResult
  /\ exit_status = -1
  /\ stdout = <<>>
  /\ first_call = NoCall
  /\ RunIdle

ParseNext ==
  \/ parse
  \/ call_again
  \/ parse_error
  \/ parse_help
  \/ parse_version
  \/ parse_return
  \/ parse_unrecognized
  \/ parse_child

ParseSpec == ParseInit /\ [][ParseNext]_vars

\* Longest argument list, and the tokens it is made of, of the specification
\* with fairness.
MaxLiveArgs == 2
LiveTokens == {"-h", "--version", "-v", "config", "sub"}

ParseLiveInit ==
  /\ \E t \in Trees :
       /\ _children = t.children
       /\ _arguments = t.arguments
       /\ _overrides = t.overrides
       /\ help = t.help
  /\ argv \in SeqsUpTo(LiveTokens, MaxLiveArgs)
  /\ ppc = "call"
  /\ node = Root
  /\ args = <<>>
  /\ namespace = NoOverrides
  /\ overrides = NoOverrides
  /\ aliased = FALSE
  /\ prog = <<ProgramName>>
  /\ path = <<>>
  /\ result = NoResult
  /\ exit_status = -1
  /\ stdout = <<>>
  /\ first_call = NoCall
  /\ RunIdle

\* The interpreter executes parse without interruption: a call that can take
\* a step takes it.
ParseLiveSpec == ParseLiveInit /\ [][ParseNext]_vars /\ WF_vars(ParseNext)

\* ------------------------------------------------ claims: RootCommand.run
IsStart(c) == c.op = "start"
IsStop(c) == c.op = "stop"
StartCalls == SelectSeq(calls, IsStart)
StopStepNames == {"stop_frontends", "stop_core", "stop_backends", "stop_audio",
                  "stop_remaining"}
\* The stop steps run has entered, in the order it entered them.
StopSteps == SelectSeq2(steps, StopStepNames)
Done == pc = "done"
Issued(op, kind, cls) ==
  \E j \in 1..Len(calls) :
    calls[j].op = op /\ calls[j].kind = kind /\ calls[j].cls = cls
\* Some start call of the given kind ended with the given outcome.
StartEnded(kind, outcome) ==
  \E j \in 1..Len(calls) :
    calls[j].op = "start" /\ calls[j].kind = kind /\ calls[j].outcome = outcome

\* C1: whenever run hands control back, the five shutdown steps have been
\* issued, in the order stop frontends, stop core, stop backends, stop audio,
\* sweep of the remaining actors.
C1_ShutdownOnEveryExit ==
  Done => StopSteps = <<"stop_frontends", "stop_core", "stop_backends",
                        "stop_audio", "stop_remaining">>

\* The start calls of a complete startup: audio, the backends in registration
\* order, core, the frontends in registration order.
ExpectedStarts ==
  <<Actor("audio", 0)>>
  \o [i \in 1..Len(backend_classes) |-> Actor("backend", backend_classes[i])]
  \o <<Actor("core", 0)>>
  \o [i \in 1..Len(frontend_classes) |-> Actor("frontend", frontend_classes[i])]

\* C2: the start calls issued so far are a prefix of audio, backends in
\* registration order, core, frontends in registration order; every start
\* before the last one issued returned successfully; and the event loop is
\* entered only when every start of the sequence has been issued and succeeded.
C2_StartOrder ==
  /\ Len(StartCalls) <= Len(ExpectedStarts)
  /\ \A j \in 1..Len(StartCalls) :
       /\ StartCalls[j].kind = ExpectedStarts[j].kind
       /\ StartCalls[j].cls = ExpectedStarts[j].cls
       /\ \A k \in 1..(j - 1) : StartCalls[k].outcome = "ok"
  /\ running => /\ Len(StartCalls) = Len(ExpectedStarts)
                /\ \A j \in 1..Len(StartCalls) : StartCalls[j].outcome = "ok"

\* C2 witness: the event loop runs after two backends (registered as 2, 1)
\* and two frontends have started.
C2_Witness ==
  /\ running
  /\ backend_classes = <<2, 1>>
  /\ Len(frontend_classes) = 2

\* C3: once a backend start has failed with BackendError, when run is over
\* that start is the last start issued, core and frontends were never
\* started, the loop was never entered, audio was started exactly once, and
\* the stop steps observed are exactly frontends, core, backends, audio.
C3_BackendFailure ==
  (Done /\ StartEnded("backend", "BackendError")) =>
    /\ StartCalls[Len(StartCalls)].outcome = "BackendError"
    /\ \A j \in 1..Len(calls) :
         calls[j].op = "start" => calls[j].kind \in {"audio", "backend"}
    /\ ~running
    /\ Cardinality({ j \in 1..Len(calls) :
                       calls[j].op = "start" /\ calls[j].kind = "audio" }) = 1
    /\ SelectSeq2(StopSteps, StopStepNames \ {"stop_remaining"})
         = <<"stop_frontends", "stop_core", "stop_backends", "stop_audio">>

\* C4: when a stop step has raised, every later step of the shutdown has
\* still been attempted by the time run is over: every frontend class and
\* every backend class has a stop request unless the sequence failed after
\* it, and the steps after the failing one have all been entered.
C4_StopStepsIndependent ==
  (Done /\ failed_stop # "None") =>
    /\ \A s \in StopStepNames : s \in Range(steps)
    /\ \A i \in 1..Len(frontend_classes) :
         Issued("stop", "frontend", frontend_classes[i])
    /\ \A i \in 1..Len(backend_classes) :
         Issued("stop", "backend", backend_classes[i])

Interrupted ==
  \E j \in 1..Len(calls) :
    calls[j].kind = "loop" /\ calls[j].outcome = "KeyboardInterrupt"

\* C6: a KeyboardInterrupt that ends loop.run() is logged at info severity,
\* is handled (nothing stays in flight), leads into the shutdown sequence at
\* its first step, and never reaches the caller of run.
C6_InterruptHandled ==
  Interrupted =>
    /\ \E k \in 1..Len(log) :
         log[k] = Record("info", "Interrupted. Exiting...", 0)
    /\ \A k \in 1..Len(log) : log[k].level # "error"
    /\ pending = "None"
    /\ raised # "KeyboardInterrupt"
    /\ pc \in StopStepNames \cup {"done"}
    /\ "stop_frontends" \in Range(steps) \/ pc = "stop_frontends"
    /\ (Done /\ failed_stop = "None") =>
         /\ raised = "None"
         /\ StopSteps = <<"stop_frontends", "stop_core", "stop_backends",
                          "stop_audio", "stop_remaining">>

\* C6 witness: the loop was interrupted and run returned after the sweep.
C6_Witness ==
  /\ Interrupted
  /\ Done
  /\ raised = "None"
  /\ "stop_remaining" \in Range(steps)

\* C7: when run is over, a stop request has been issued for every registered
\* frontend class and backend class, started or not, and for core and audio.
C7_StopEveryClass ==
  Done =>
    /\ \A i \in 1..Len(frontend_classes) :
         Issued("stop", "frontend", frontend_classes[i])
    /\ \A i \in 1..Len(backend_classes) :
         Issued("stop", "backend", backend_classes[i])
    /\ Issued("stop", "core", 0)
    /\ Issued("stop", "audio", 0)

\* ------------------------------------------------ claims: Command.parse
\* The keys some node of the path sets an override for.
PathKeys == UNION { DOMAIN _overrides[path[i]] : i \in 1..Len(path) }
\* The positions of the path whose node sets an override for k.
Setters(k) == { i \in 1..Len(path) : k \in DOMAIN _overrides[path[i]] }
Deepest(k) == CHOOSE i \in Setters(k) : \A j \in Setters(k) : j <= i
OffPath == DOMAIN _overrides \ Range(path)

\* C8: when parse has returned, the command is the last node of the path
\* from the root; every key that a node of the path overrides holds the value
\* of the deepest node of the path that sets it, whatever parse_args wrote
\* there; every other attribute is as parse_args left it, so no override of a
\* node outside the path has been applied.
C8_DeepestOverrideWins ==
  ppc = "returned" =>
    /\ path[1] = Root /\ result.command = path[Len(path)]
    /\ DOMAIN result.attrs = PathKeys \cup DOMAIN namespace
    /\ \A k \in PathKeys :
         result.attrs[k] = _overrides[path[Deepest(k)]][k]
    /\ \A k \in DOMAIN result.attrs \ PathKeys :
         result.attrs[k] = namespace[k]

\* C8 witness: a result two levels down where an override key is set by
\* several nodes of the path with different values, a flag wrote a different
\* value to an overridden destination, and a node outside the path overrides
\* a key that no node of the path sets.
C8_Witness ==
  /\ ppc = "returned"
  /\ Len(path) = 3
  /\ \E k \in PathKeys : \E i, j \in Setters(k) :
       _overrides[path[i]][k] # _overrides[path[j]][k]
  /\ \E k \in PathKeys \cap DOMAIN namespace :
       namespace[k].tag = "int" /\ namespace[k] # result.attrs[k]
  /\ \E n \in OffPath : \E k \in DOMAIN _overrides[n] : k \notin PathKeys

\* C9: when dispatch has ended on a help request, the exit status is 0 and
\* the text printed is the full help of the node whose parser met the flag,
\* under that node's extended program name.
C9_HelpOfCurrentNode ==
  (ppc = "exited" /\ stdout # <<>> /\ stdout[1].kind = "help") =>
    /\ exit_status = 0
    /\ Len(stdout) = 1
    /\ stdout[1].node = node
    /\ stdout[1].prog = prog

\* The node's flags parsed without error and the first token of the
\* remainder names no child of the node.
FirstRemainderUnknown ==
  /\ ppc = "_parse"
  /\ Parsed.status = "ok"
  /\ Parsed.rest # <<>>
  /\ \A i \in 1..Len(_children[node]) :
       _children[node][i].name # Head(Parsed.rest)

\* C10: when the flags of a node parsed without error and the first token
\* of the remainder names no child of that node, the step ends the dispatch
\* with exit status 1, having printed the usage line of that node under its
\* extended program name and then a message holding the token; nothing is
\* returned.
C10_UnrecognizedCommand ==
  [][ FirstRemainderUnknown =>
        /\ ppc' = "exited"
        /\ exit_status' = 1
        /\ result' = [command |-> -1, attrs |-> <<>>]
        /\ Len(stdout') = 2
        /\ stdout'[1].kind = "usage"
        /\ stdout'[1].node = node
        /\ stdout'[1].prog = prog
        /\ stdout'[1].options
             = [i \in 1..Len(_arguments[node]) |-> _arguments[node][i].names]
        /\ stdout'[2].kind = "unrecognized command"
        /\ stdout'[2].tokens = <<Head(Parsed.rest)>> ]_vars

\* C10 witness: dispatch has ended with status 1 on an unrecognized command
\* met below the root.
C10_Witness ==
  /\ ppc = "exited"
  /\ exit_status = 1
  /\ Len(path) >= 2
  /\ Len(stdout) = 2
  /\ stdout[2].kind = "unrecognized command"
  /\ stdout[1].prog = prog /\ Len(prog) >= 2

\* The name under which node n is registered as a child of node parent.
NameOf(parent, n) ==
  CHOOSE name \in ChildNames(parent) : ChildNode(parent, name) = n

\* The program name of the last node of path p: the program's name followed
\* by the child names that lead from the root to that node.
ProgOf(p) ==
  <<ProgramName>> \o [i \in 1..(Len(p) - 1) |-> NameOf(p[i], p[i + 1])]

\* parse_args of the current node ends in a flag-syntax error.
FlagSyntaxError == ppc = "_parse" /\ Parsed.status = "error"

\* The three kinds of flag-syntax error: an unknown flag, a flag without its
\* value, a value its type converter rejects.
FlagErrorKinds == {"unrecognized arguments", "expected one argument",
                   "must have the format section/key=value"}

\* C11: when the flags handed to a node, at any depth, hold a syntax error
\* that its parser reports, that step ends the dispatch with exit status 1,
\* having printed the usage line of that node under its extended program
\* name and then the error message; that node is the last one parsed and
\* nothing is returned.
C11_FlagErrorAborts ==
  [][ FlagSyntaxError =>
        /\ ppc' = "exited"
        /\ exit_status' = 1
        /\ result' = [command |-> -1, attrs |-> <<>>]
        /\ path' = Append(path, node)
        /\ Len(stdout') = 2
        /\ stdout'[1].kind = "usage"
        /\ stdout'[1].node = node
        /\ stdout'[1].prog = ProgOf(path')
        /\ stdout'[1].options
             = [i \in 1..Len(_arguments[node]) |-> _arguments[node][i].names]
        /\ stdout'[2].kind = "error"
        /\ stdout'[2].summary \in FlagErrorKinds
        /\ stdout'[2].tokens # <<>> ]_vars

\* C11 witness: dispatch has ended with status 1 on a flag-syntax error met
\* below the root, the usage line printed under the extended program name.
C11_Witness ==
  /\ ppc = "exited"
  /\ exit_status = 1
  /\ Len(path) >= 2
  /\ Len(stdout) = 2
  /\ stdout[2].kind = "error"
  /\ stdout[1].kind = "usage" /\ Len(stdout[1].prog) >= 2

\* A call of parse has ended, by returning or by exiting.
Ended == ppc \in {"returned", "exited"}

\* C12: no step of a dispatch changes the tree (the children, the argument
\* list and the override table of every node stay as they were, whether the
\* call returns or exits), and a second call of parse with the same argument
\* list on that tree ends as the first one did: the same attributes on the
\* same terminal node, or the same exit status and text, through the same
\* nodes.
C12_TreeUnchanged ==
  /\ [][ /\ _children' = _children
         /\ _arguments' = _arguments
         /\ _overrides' = _overrides
         /\ help' = help ]_vars
  /\ []((Ended /\ first_call # NoCall) =>
          /\ ppc = first_call.ppc
          /\ result = first_call.result
          /\ exit_status = first_call.exit_status
          /\ stdout = first_call.stdout
          /\ path = first_call.path)

\* C12 witness: the second call has returned a result from below the root,
\* on a path where a child overrides a key the root sets with another value.
C12_Witness ==
  /\ ppc = "returned"
  /\ first_call # NoCall
  /\ first_call.ppc = "returned"
  /\ Len(path) >= 2
  /\ \E k \in DOMAIN _overrides[Root] \cap DOMAIN _overrides[path[2]] :
       _overrides[Root][k] # _overrides[path[2]][k]

\* Token i of seq is read as a child name: it is no option string and not
\* the value of the -o flag before it.
IsChildNameToken(seq, i) ==
  /\ ~IsOptionString(seq[i])
  /\ i = 1 \/ seq[i - 1] # "-o"

RECURSIVE ChildNameTokensFrom(_, _)
ChildNameTokensFrom(seq, i) ==
  IF i > Len(seq) THEN <<>>
  ELSE (IF IsChildNameToken(seq, i) THEN <<seq[i]>> ELSE <<>>)
       \o ChildNameTokensFrom(seq, i + 1)

\* The child-name tokens of seq, in order.
ChildNameTokens(seq) == ChildNameTokensFrom(seq, 1)

\* The position of the first child-name token of seq.
FirstName(seq) ==
  CHOOSE i \in 1..Len(seq) :
    /\ IsChildNameToken(seq, i)
    /\ \A j \in 1..(i - 1) : ~IsChildNameToken(seq, j)

\* The destinations the flags of node n write to.
Dests(n) == { _arguments[n][i].dest : i \in 1..Len(_arguments[n]) }

\* C13, descent: a step that goes down to a child goes to the child named by
\* the first child-name token of the node's arguments, hands it exactly the
\* tokens after that name, has interpreted exactly the flags before it, and
\* keeps every attribute written at the levels above, changing only the
\* destinations of the node's own flags.
C13_Descent ==
  (ppc = "_parse" /\ ppc' = "_parse") =>
    LET i == FirstName(args) IN
    /\ node' = ChildNode(node, args[i])
    /\ args' = SubSeq(args, i + 1, Len(args))
    /\ namespace'
         = ParseArgs(_arguments[node], SubSeq(args, 1, i - 1), namespace).ns
    /\ \A k \in DOMAIN namespace :
         /\ k \in DOMAIN namespace'
         /\ k \notin Dests(node) => namespace'[k] = namespace[k]

\* C13, result: a step that returns keeps, on the result, every attribute
\* written at the levels above that neither a flag of the terminal node nor
\* an override of the path writes to.
C13_Retained ==
  (ppc = "_parse" /\ ppc' = "returned") =>
    \A k \in DOMAIN namespace \ (Dests(node) \cup DOMAIN overrides'):
      k \in DOMAIN result'.attrs /\ result'.attrs[k] = namespace[k]

\* C13, terminal node: a returned result names the node reached from the
\* root by the child-name tokens of argv, in order. With a counter flag -v
\* on the root and a flagless child, argv [-v, -v, child] gives that child
\* with verbosity_level 2 unless an override on the path sets that key.
C13_Terminal ==
  ppc = "returned" =>
    /\ result.command = path[Len(path)]
    /\ SubSeq(ProgOf(path), 2, Len(path)) = ChildNameTokens(argv)
    /\ \A c \in ChildNames(Root) :
         ( /\ argv = <<"-v", "-v", c>>
           /\ VerboseArgument \in Range(_arguments[Root])
           /\ _arguments[ChildNode(Root, c)] = <<>>
           /\ "verbosity_level" \notin PathKeys ) =>
           /\ result.command = ChildNode(Root, c)
           /\ result.attrs["verbosity_level"] = IntValue(2)

\* C13: the terminal node is the one the child-name tokens lead to, each
\* level interprets only the flags before the next child name, and what the
\* flags of the levels above wrote is retained in the result.
C13_AncestorFlagsRetained ==
  /\ [][C13_Descent]_vars
  /\ [][C13_Retained]_vars
  /\ []C13_Terminal

\* C13 witness: argv [-v, -v, config] on the tree of RootCommand has
\* returned the flagless config command with verbosity_level 2.
C13_Witness ==
  /\ ppc = "returned"
  /\ argv = <<"-v", "-v", "config">>
  /\ _arguments[Root] = RootArguments
  /\ result.command = 1
  /\ _arguments[1] = <<>>
  /\ result.attrs["verbosity_level"] = IntValue(2)

\* ---- the descendants of a node, addressed by child positions
\* An address is the sequence of child positions that leads down from a node.
RECURSIVE AddressesFrom(_)
\* The addresses of the descendants of node n.
AddressesFrom(n) ==
  UNION { {<<i>>} \cup { <<i>> \o a : a \in AddressesFrom(_children[n][i].node) }
          : i \in 1..Len(_children[n]) }

RECURSIVE NodeAt(_, _)
NodeAt(n, a) ==
  IF a = <<>> THEN n ELSE NodeAt(_children[n][Head(a)].node, Tail(a))

RECURSIVE NamesAt(_, _)
\* The child names along address a from node n.
NamesAt(n, a) ==
  IF a = <<>> THEN <<>>
  ELSE <<_children[n][Head(a)].name>>
       \o NamesAt(_children[n][Head(a)].node, Tail(a))

\* Pre-order: a node before its descendants, children in insertion order.
Before(a, b) ==
  \/ Len(a) < Len(b) /\ SubSeq(b, 1, Len(a)) = a
  \/ \E i \in 1..Len(a) :
       /\ i <= Len(b)
       /\ a[i] < b[i]
       /\ \A j \in 1..(i - 1) : a[j] = b[j]

\* The descendants of n that have a help summary or an argument of their own.
Contributors(n) ==
  { a \in AddressesFrom(n) :
      help[NodeAt(n, a)] # "" \/ Len(_arguments[NodeAt(n, a)]) >= 1 }

\* C14: for every node of the tree, the COMMANDS blocks of its format_help
\* are, one each and in pre-order, the blocks of exactly those descendants
\* that have a help summary or an argument of their own, each under the
\* names that lead to it; a descendant without a block does not hide the
\* descendants below it.
C14_SubhelpPreorder ==
  \A n \in DOMAIN _children :
    LET blocks == format_help(n, <<ProgramName>>).commands
        Q == Contributors(n)
        Rank(a) == 1 + Cardinality({ b \in Q : Before(b, a) })
    IN /\ Len(blocks) = Cardinality(Q)
       /\ \A a \in Q :
            blocks[Rank(a)]
              = Text("block", NodeAt(n, a), NamesAt(n, a), help[NodeAt(n, a)],
                     Options(NodeAt(n, a)), <<>>, <<>>)

\* C14 witness: a help text has been printed whose COMMANDS block holds a
\* grandchild of the root whose parent has neither summary nor arguments,
\* after the block of an earlier child.
C14_Witness ==
  /\ ppc = "exited"
  /\ stdout # <<>>
  /\ stdout[1].kind = "help"
  /\ Len(stdout[1].commands) >= 2
  /\ \E i \in 2..Len(stdout[1].commands) :
       LET b == stdout[1].commands[i] IN
       /\ Len(b.prog) = 2
       /\ \E c \in 1..Len(_children[Root]) :
            /\ _children[Root][c].name = b.prog[1]
            /\ help[_children[Root][c].node] = ""
            /\ _arguments[_children[Root][c].node] = <<>>

\* ------------------------------------------- claims: RootCommand.run (2)
\* The error class by which a component of each stage reports that it
\* cannot start.
StageError(kind) ==
  CASE kind = "audio" -> "MixerError"
    [] kind = "backend" -> "BackendError"
    [] kind = "frontend" -> "FrontendError"

\* The records logged once shutdown has begun.
StoppingMessages == {"Stopping Mopidy frontends", "Stopping Mopidy core",
                     "Stopping Mopidy backends", "Stopping Mopidy audio"}

\* Start call j failed with its stage's error and the log holds a record at
\* error severity for that component, written before any record of shutdown.
LoggedAtError(j) ==
  \E k \in 1..Len(log) :
    /\ log[k].level = "error"
    /\ log[k].who = calls[j].cls
    /\ \A m \in 1..k : log[m].msg \notin StoppingMessages

\* C15: every start error of a component of the audio, backend or frontend
\* stage has a log record at error severity that names the component,
\* written before shutdown begins.
C15_StartErrorsLogged ==
  \A j \in 1..Len(calls) :
    ( /\ calls[j].op = "start"
      /\ calls[j].kind \in {"audio", "backend", "frontend"}
      /\ calls[j].outcome = StageError(calls[j].kind) ) =>
      LoggedAtError(j)

\* A start call of the given component returned successfully.
Started(kind, cls) ==
  \E j \in 1..Len(calls) :
    /\ calls[j].op = "start" /\ calls[j].kind = kind /\ calls[j].cls = cls
    /\ calls[j].outcome = "ok"

\* C16: once the start of a frontend has failed with FrontendError, when run
\* is over that start is the last start issued, the event loop was never
\* entered, audio, every registered backend and the core had been started
\* before the failure, and the full shutdown sequence has run.
C16_FrontendFailure ==
  (Done /\ StartEnded("frontend", "FrontendError")) =>
    /\ StartCalls[Len(StartCalls)].kind = "frontend"
    /\ StartCalls[Len(StartCalls)].outcome = "FrontendError"
    /\ ~running
    /\ \A j \in 1..Len(calls) : calls[j].kind # "loop"
    /\ Started("audio", 0)
    /\ \A i \in 1..Len(backend_classes) : Started("backend", backend_classes[i])
    /\ Started("core", 0)
    /\ StopSteps = <<"stop_frontends", "stop_core", "stop_backends",
                     "stop_audio", "stop_remaining">>

\* The step issues a start call of the given kind.
StartsNow(kind) ==
  /\ Len(calls') = Len(calls) + 1
  /\ calls'[Len(calls')].op = "start"
  /\ calls'[Len(calls')].kind = kind

\* C17, core: the step that starts the core hands it the audio handle and
\* the handles of all registered backends in registration order, while audio
\* and each of these backends has been started and not stopped.
C17_CoreArguments ==
  StartsNow("core") =>
    /\ calls'[Len(calls')].arg.audio = "Audio"
    /\ calls'[Len(calls')].arg.backends = backend_classes
    /\ Started("audio", 0) /\ Actor("audio", 0) \in live
    /\ \A i \in 1..Len(backend_classes) :
         /\ Started("backend", backend_classes[i])
         /\ Actor("backend", backend_classes[i]) \in live
    /\ \A j \in 1..Len(calls) : calls[j].op # "stop"

\* C17, frontends: the step that starts a frontend hands it the core handle
\* while the core has been started and not stopped.
C17_FrontendArguments ==
  StartsNow("frontend") =>
    /\ calls'[Len(calls')].arg.core = "Core"
    /\ Started("core", 0) /\ Actor("core", 0) \in live
    /\ \A j \in 1..Len(calls) : calls[j].op # "stop"

\* C17: the core is started with the audio handle and the handles of all
\* registered backends, in registration order, all of them started and not
\* stopped; a frontend is started with the handle of the started, not
\* stopped core.
C17_HandlesHandedOn ==
  /\ [][C17_CoreArguments]_vars
  /\ [][C17_FrontendArguments]_vars

\* C17 witness: the core and then a frontend have been started, the core
\* with the handles of two backends registered as 2, 1.
C17_Witness ==
  /\ backend_classes = <<2, 1>>
  /\ \E j \in 1..Len(calls) :
       /\ calls[j].op = "start" /\ calls[j].kind = "core"
       /\ calls[j].arg.backends = <<2, 1>>
  /\ \E j \in 1..Len(calls) :
       /\ calls[j].op = "start" /\ calls[j].kind = "frontend"
       /\ calls[j].arg.core = "Core"

\* The positions of calls that hold a start call for the component.
StartsOf(kind, cls) ==
  { j \in 1..Len(calls) :
      calls[j].op = "start" /\ calls[j].kind = kind /\ calls[j].cls = cls }

\* C18: in a run at most one start call is issued for audio, for each
\* registered backend class, for the core and for each registered frontend
\* class; and once the first stop step of the shutdown has been issued no
\* start call and no start step follows.
C18_NoRestart ==
  /\ \A kind \in {"audio", "backend", "core", "frontend"} :
       \A cls \in {0} \cup Range(backend_classes) \cup Range(frontend_classes) :
         Cardinality(StartsOf(kind, cls)) <= 1
  /\ \A i, j \in 1..Len(calls) :
       (calls[i].op = "stop" /\ i < j) => calls[j].op = "stop"
  /\ \A i, j \in 1..Len(steps) :
       (steps[i] \in StopStepNames /\ i < j) => steps[j] \in StopStepNames
  /\ pc \in StopStepNames \cup {"done"} =>
       \A j \in 1..Len(calls) : calls[j].op = "start" => j <= Len(StartCalls)

\* C18 witness: run is over after a backend start failed with another
\* backend registered behind it, and after every stop step.
C18_Witness ==
  /\ Done
  /\ Len(backend_classes) = 2
  /\ StartEnded("backend", "BackendError")
  /\ Cardinality(StartsOf("backend", backend_classes[1])) = 1
  /\ StartsOf("backend", backend_classes[2]) = {}
  /\ StopSteps = <<"stop_frontends", "stop_core", "stop_backends",
                   "stop_audio", "stop_remaining">>

\* ------------------------------------------- claims: Command.parse (2)
RECURSIVE TrailingRun(_, _)
\* The number of tokens t at the end of seq.
TrailingRun(seq, t) ==
  IF seq = <<>> \/ seq[Len(seq)] # t THEN 0
  ELSE 1 + TrailingRun(SubSeq(seq, 1, Len(seq) - 1), t)

\* What the last-parsed flag alone gives: -1 when it is -q, and when it is -v
\* the count of the -v flags that end the argument list.
ByLastFlag(seq) ==
  IF seq[Len(seq)] = "-q" THEN IntValue(-1)
  ELSE IntValue(TrailingRun(seq, "-v"))

\* parse has returned the root for an argument list made of -q and -v flags
\* only, the root having both flags and no override of their destination.
QuietVerboseOnly ==
  /\ ppc = "returned"
  /\ path = <<Root>>
  /\ argv # <<>>
  /\ Range(argv) \subseteq {"-q", "-v"}
  /\ QuietArgument \in Range(_arguments[Root])
  /\ VerboseArgument \in Range(_arguments[Root])
  /\ "verbosity_level" \notin DOMAIN _overrides[Root]

\* C19: of the flags -q and -v of the root, which share the destination
\* verbosity_level, the last-parsed one wins: the value returned is the one
\* the last flag gives (-1 for -q, the count of the closing -v flags for
\* -v), whatever flags of that destination came before it.
C19_LastParsedWins ==
  QuietVerboseOnly => result.attrs["verbosity_level"] = ByLastFlag(argv)

\* C20, descent: every call of a child's _parse gets fewer tokens than the
\* call that makes it.
C20_Consumes ==
  (ppc = "_parse" /\ ppc' = "_parse") => Len(args') < Len(args)

\* C20, depth and outcome: the calls of _parse number at most the tokens of
\* argv plus one, and a dispatch that has ended has either returned a result
\* without exiting, or exited with status 0 or with status 1 without a
\* result.
C20_Outcome ==
  /\ Len(path) <= Len(argv) + 1
  /\ ppc = "returned" => (exit_status = -1 /\ result.command \in DOMAIN _children)
  /\ ppc = "exited" => (exit_status \in {0, 1}
                         /\ result = [command |-> -1, attrs |-> <<>>])

\* C20: every call of parse ends, by a returned result or by exit status 0
\* or 1; each descent into a child consumes at least one token, so the depth
\* of the recursion is at most the number of tokens plus one.
C20_Terminates ==
  /\ [][C20_Consumes]_vars
  /\ []C20_Outcome
  /\ (ppc = "call") ~> (ppc \in {"returned", "exited"})

\* C20 witness: a dispatch over two tokens has ended at the deepest
\* recursion possible, a third call of _parse.
C20_Witness ==
  /\ ppc \in {"returned", "exited"}
  /\ Len(argv) = 2
  /\ Len(path) = 3

====
